---- MODULE Spec2Model ----
(***************************************************************************)
(* Reductions of combinatorial auctions (auct_solver.py) and of minimum    *)
(* vertex cover, maximum clique and maximum cut (graph.py) to weighted     *)
(* partial MaxSAT.  The formula container (wcnf.WCNFFormula) and the       *)
(* solver (msat_runner.MaxSATRunner) are collaborators whose code is not   *)
(* part of the sources; they are modelled from their documented contract.  *)
(***************************************************************************)
EXTENDS Integers, Sequences, FiniteSets

VARIABLES
    pc,           \* position of the running program
    formula,      \* the WCNFFormula under construction / handed to the solver
    solution,     \* what solver.solve returned: <<opt, model>>, or <<>>
    \* ---- auct_solver.Auction ----
    flag,         \* --no-min-win-bids
    auctioneers,  \* self.auctioneers
    auctions,     \* self.auctions: list of token lists
    goods,        \* self.goods: set of (good, bid variable)
    benefit,      \* print_solution: the printed benefit
    printed,      \* print_solution: the bid rows printed as winners
    valid,        \* print_solution: "Valid solution" / "Invalid solution"
    \* ---- graph.Graph ----
    n_nodes,      \* self.n_nodes
    edges,        \* self.edges: tuple of tuples
    op,           \* the reduction called last
    failed,       \* the last call raised an exception
    result        \* the node list the last reduction returned

vars == <<pc, formula, solution, flag, auctioneers, auctions, goods, benefit,
          printed, valid, n_nodes, edges, op, failed, result>>

auctionVars == <<flag, auctioneers, auctions, goods, benefit, printed, valid>>
graphVars == <<n_nodes, edges, op, failed, result>>

----------------------------------------------------------------------------
(* Bounds of the model *)

MaxBids == 2
MaxGoodsPerBid == 2
MaxAuctioneers == 2
MaxNodes == 3
MaxEdges == 3

Agents == {"A", "B"}
Goods == {"g1", "g2"}
PriceTokens == {"1", "2", "02"}

----------------------------------------------------------------------------
(* Generic helpers *)

RECURSIVE Orders(_)
\* every order in which a Python set / frozenset may be iterated
Orders(S) ==
    IF S = {} THEN {<<>>}
    ELSE UNION {{<<x>> \o s : s \in Orders(S \ {x})} : x \in S}

Range(s) == {s[i] : i \in 1..Len(s)}

SeqsUpTo(S, n) == UNION {[1..k -> S] : k \in 0..n}

\* list.index(x) + 1: the 1-based position of the first element equal to x
FirstIndex(s, x) == CHOOSE i \in 1..Len(s) : s[i] = x /\ \A j \in 1..(i-1) : s[j] # x

\* int(token) on the price tokens of the model
IntValue(tok) ==
    CASE tok = "1" -> 1
      [] tok = "2" -> 2
      [] tok = "02" -> 2

\* the largest price a bid line of the model carries
MaxPriceValue ==
    CHOOSE v \in {IntValue(t) : t \in PriceTokens} : \A t \in PriceTokens : IntValue(t) <= v

----------------------------------------------------------------------------
(* wcnf.WCNFFormula *)

\* sentinel weight of a hard clause, above every sum of soft weights
TOP_WEIGHT == MaxBids * MaxPriceValue + 2 * MaxEdges + MaxNodes + 1

EmptyFormula == [num_vars |-> 0, hard |-> <<>>, soft |-> <<>>]

NewVar(f) == [f EXCEPT !.num_vars = f.num_vars + 1]

AddClause(f, literals, weight) ==
    IF weight = TOP_WEIGHT
    THEN [f EXCEPT !.hard = Append(f.hard, literals)]
    ELSE [f EXCEPT !.soft = Append(f.soft, <<literals, weight>>)]

RECURSIVE SumWeights(_)
SumWeights(soft) ==
    IF soft = <<>> THEN 0 ELSE soft[1][2] + SumWeights(Tail(soft))

SumSoftWeights(f) == SumWeights(f.soft)

----------------------------------------------------------------------------
(* msat_runner.MaxSATRunner.solve *)

\* complete assignments: one signed literal per declared variable
Assignments(n) == {[i \in 1..n |-> IF i \in T THEN i ELSE -i] : T \in SUBSET (1..n)}

LitTrue(lit, model) == \E i \in 1..Len(model) : model[i] = lit

ClauseSat(clause, model) == \E k \in 1..Len(clause) : LitTrue(clause[k], model)

SatisfiesHard(f, model) == \A c \in 1..Len(f.hard) : ClauseSat(f.hard[c], model)

RECURSIVE FalsifiedWeight(_, _)
FalsifiedWeight(soft, model) ==
    IF soft = <<>> THEN 0
    ELSE (IF ClauseSat(soft[1][1], model) THEN 0 ELSE soft[1][2])
         + FalsifiedWeight(Tail(soft), model)

Cost(f, model) == FalsifiedWeight(f.soft, model)

Feasible(f) == {m \in Assignments(f.num_vars) : SatisfiesHard(f, m)}

Optimal(f) == {m \in Feasible(f) : \A m2 \in Feasible(f) : Cost(f, m) <= Cost(f, m2)}

NoSolution == <<>>

----------------------------------------------------------------------------
(* auct_solver.Auction *)

\* faulty variant: the slice drops the last good of the bid
BidGoodsDropLast(bid) == SubSeq(bid, 2, Len(bid) - 2)

\* bid[1:len(bid)-1]
BidGoods(bid) == SubSeq(bid, 2, Len(bid) - 1)

\* bid[-1]
BidPrice(bid) == bid[Len(bid)]

\* manage_auction: the formula after the bid's variable and soft clause
ManageAuctionFormula(f, bid) ==
    LET f1 == NewVar(f)
    IN  AddClause(f1, <<f1.num_vars>>, IntValue(BidPrice(bid)))

\* manage_auction: the (good, variable) pairs after the bid
ManageAuctionGoods(gs, bid, var) == gs \cup {<<BidGoods(bid)[k], var>> : k \in 1..Len(BidGoods(bid))}

\* the condition under which manage_incompatibilities adds [-good[1], -good2[1]]
Incompatible(good, good2, f) ==
    /\ good[1] = good2[1]
    /\ good[2] # good2[2]
    /\ good[2] < good2[2]
    /\ <<-good[2], -good2[2]>> \notin Range(f.hard)

RECURSIVE IncompatInner(_, _, _, _)
IncompatInner(ord, good, j, f) ==
    IF j > Len(ord) THEN f
    ELSE IF Incompatible(good, ord[j], f)
         THEN IncompatInner(ord, good, j + 1,
                            AddClause(f, <<-good[2], -ord[j][2]>>, TOP_WEIGHT))
         ELSE IncompatInner(ord, good, j + 1, f)

RECURSIVE IncompatOuter(_, _, _)
IncompatOuter(ord, i, f) ==
    IF i > Len(ord) THEN f
    ELSE IncompatOuter(ord, i + 1, IncompatInner(ord, ord[i], 1, f))

\* manage_incompatibilities, the set being iterated in the order ord
ManageIncompatibilities(ord, f) == IncompatOuter(ord, 1, f)

RECURSIVE AuctionsOfAuctioneer(_, _, _)
\* the inner loop of check_all_auctioneers_win, from position k on
AuctionsOfAuctioneer(auctioneer, aucts, k) ==
    IF k > Len(aucts) THEN <<>>
    ELSE (IF auctioneer = aucts[k][1] THEN <<FirstIndex(aucts, aucts[k])>> ELSE <<>>)
         \o AuctionsOfAuctioneer(auctioneer, aucts, k + 1)

\* faulty variant: the clause of an auctioneer is added as a soft clause
AddAuctioneerClauseSoft(f, auctions_of_auctioneer) ==
    AddClause(f, auctions_of_auctioneer, 1)

\* formula.add_clause(auctions_of_auctioneer, wcnf.TOP_WEIGHT)
AddAuctioneerClause(f, auctions_of_auctioneer) ==
    AddClause(f, auctions_of_auctioneer, TOP_WEIGHT)

RECURSIVE CheckAllAuctioneersWin(_, _, _, _)
\* check_all_auctioneers_win up to the call of the solver
CheckAllAuctioneersWin(aers, a, aucts, f) ==
    IF a > Len(aers) THEN f
    ELSE CheckAllAuctioneersWin(aers, a + 1, aucts,
             AddAuctioneerClause(f, AuctionsOfAuctioneer(aers[a], aucts, 1)))

\* faulty variant: the optimal cost is not subtracted
BenefitNoCost(sum, opt) == sum

\* benefit = self.formula.sum_soft_weights() - opt
Benefit(sum, opt) == sum - opt

RECURSIVE WinningBids(_)
\* the variables assigned true, in the order of the model
WinningBids(bids) ==
    IF bids = <<>> THEN <<>>
    ELSE (IF bids[1] > 0 THEN <<bids[1]>> ELSE <<>>) \o WinningBids(Tail(bids))

BidLines == {<<a>> \o gs \o <<p>> : a \in Agents, gs \in SeqsUpTo(Goods, MaxGoodsPerBid),
                                    p \in PriceTokens}

InitAuction ==
    /\ pc = "parse"
    /\ formula = EmptyFormula
    /\ solution = NoSolution
    /\ flag \in BOOLEAN
    /\ auctioneers = <<>>
    /\ auctions = <<>>
    /\ goods = {}
    /\ benefit = 0
    /\ printed = <<>>
    /\ valid = TRUE
    /\ n_nodes = 0
    /\ edges = <<>>
    /\ op = "none"
    /\ failed = FALSE
    /\ result = <<>>

\* parse_input_stream: a line 'a id ...'
ParseAuctioneers ==
    /\ pc = "parse"
    /\ \E ids \in SeqsUpTo(Agents, MaxAuctioneers) :
          /\ Len(auctioneers) + Len(ids) <= MaxAuctioneers
          /\ Len(ids) > 0
          /\ auctioneers' = auctioneers \o ids
    /\ UNCHANGED <<pc, formula, solution, flag, auctions, goods, benefit, printed, valid>>
    /\ UNCHANGED graphVars

\* parse_input_stream: a line 'g ...' is skipped
ParseGoodsLine ==
    /\ pc = "parse"
    /\ UNCHANGED <<pc, formula, solution>>
    /\ UNCHANGED auctionVars
    /\ UNCHANGED graphVars

\* parse_input_stream: any other line that is not a 'g' line is a bid
ParseBid ==
    /\ pc = "parse"
    /\ Len(auctions) < MaxBids
    /\ \E l \in BidLines :
          /\ auctions' = Append(auctions, l)
          /\ formula' = ManageAuctionFormula(formula, l)
          /\ goods' = ManageAuctionGoods(goods, l, formula.num_vars + 1)
    /\ UNCHANGED <<pc, solution, flag, auctioneers, benefit, printed, valid>>
    /\ UNCHANGED graphVars

\* parse_input_stream after the last line, up to the call of solver.solve
EndOfStream ==
    /\ pc = "parse"
    /\ \E ord \in Orders(goods) :
          LET f1 == ManageIncompatibilities(ord, formula)
          IN  formula' = IF flag THEN f1
                         ELSE CheckAllAuctioneersWin(auctioneers, 1, auctions, f1)
    /\ pc' = "solve"
    /\ UNCHANGED <<solution, flag, auctioneers, auctions, goods, benefit, printed, valid>>
    /\ UNCHANGED graphVars

\* solver.solve(formula) returns an optimal model
AuctionSolved ==
    /\ pc = "solve"
    /\ \E m \in Optimal(formula) : solution' = <<Cost(formula, m), m>>
    /\ pc' = "solved"
    /\ UNCHANGED <<formula, flag, auctioneers, auctions, goods, benefit, printed, valid>>
    /\ UNCHANGED graphVars

\* solver.solve(formula) fails: no assignment satisfies the hard clauses
AuctionInfeasible ==
    /\ pc = "solve"
    /\ Feasible(formula) = {}
    /\ pc' = "infeasible"
    /\ UNCHANGED <<formula, solution, flag, auctioneers, auctions, goods, benefit, printed,
                   valid>>
    /\ UNCHANGED graphVars

PrintSolution ==
    /\ pc = "solved"
    /\ LET opt == solution[1]
           bids == solution[2]
           winning_bids == WinningBids(bids)
           b == Benefit(SumSoftWeights(formula), opt)
       IN  /\ benefit' = b
           /\ printed' = [k \in 1..Len(winning_bids) |-> auctions[winning_bids[k]]]
           /\ valid' = ~(b > SumSoftWeights(formula))
    /\ pc' = "printed"
    /\ UNCHANGED <<formula, solution, flag, auctioneers, auctions, goods>>
    /\ UNCHANGED graphVars

NextAuction ==
    \/ ParseAuctioneers
    \/ ParseGoodsLine
    \/ ParseBid
    \/ EndOfStream
    \/ AuctionSolved
    \/ AuctionInfeasible
    \/ PrintSolution

----------------------------------------------------------------------------
(* graph.Graph *)

\* Python list indexing: nodes[i] with i in -len .. len-1, IndexError otherwise
IndexOK(s, i) == -Len(s) <= i /\ i <= Len(s) - 1

PyIndex(s, i) == IF i >= 0 THEN s[i + 1] ELSE s[Len(s) + i + 1]

\* a call that raised, and a call that built its formula
Raised == [ok |-> FALSE, f |-> EmptyFormula]

Built(f) == [ok |-> TRUE, f |-> f]

RECURSIVE NewVars(_, _)
\* the formula after k calls of new_var()
NewVars(f, k) == IF k = 0 THEN f ELSE NewVars(NewVar(f), k - 1)

\* nodes = [formula.new_var() for _ in range(self.n_nodes)] on the formula f
NodeVars(f, nn) == [i \in 1..nn |-> f.num_vars + i]

RECURSIVE SoftPerNode(_, _, _, _)
\* for n in nodes: formula.add_clause([sign * n], weight=1)
SoftPerNode(f, nodes, k, sign) ==
    IF k > Len(nodes) THEN f
    ELSE SoftPerNode(AddClause(f, <<sign * nodes[k]>>, 1), nodes, k + 1, sign)

\* for n1, n2 in self.edges: unpacking a tuple and indexing nodes may raise
EdgeOK(nodes, e) ==
    /\ Len(e) = 2
    /\ IndexOK(nodes, e[1] - 1)
    /\ IndexOK(nodes, e[2] - 1)

\* faulty variant: the first endpoint is used twice
MvcClauseSameEndpoint(nodes, e) == <<PyIndex(nodes, e[1] - 1), PyIndex(nodes, e[1] - 1)>>

\* [nodes[n1 - 1], nodes[n2 - 1]]
MvcClause(nodes, e) == <<PyIndex(nodes, e[1] - 1), PyIndex(nodes, e[2] - 1)>>

RECURSIVE MvcEdges(_, _, _, _)
MvcEdges(f, nodes, es, k) ==
    IF k > Len(es) THEN Built(f)
    ELSE IF ~EdgeOK(nodes, es[k]) THEN Raised
    ELSE MvcEdges(AddClause(f, MvcClause(nodes, es[k]), TOP_WEIGHT), nodes, es, k + 1)

\* min_vertex_cover up to the call of the solver
MinVertexCoverBuild(nn, es) ==
    LET f1 == NewVars(EmptyFormula, nn)
        nodes == NodeVars(EmptyFormula, nn)
        f2 == SoftPerNode(f1, nodes, 1, -1)
    IN  MvcEdges(f2, nodes, es, 1)

\* matrix: n rows of n cells; 0 stands for None
EmptyMatrix(n) == [r \in 0..(n - 1) |-> [c \in 0..(n - 1) |-> 0]]

\* faulty variant: interchanged values are not corrected
CliqueCellNoSwap(v1, v2) == <<v1, v2>>

\* the cell of the matrix an edge marks: the smaller variable picks the row
CliqueCell(v1, v2) == IF v1 > v2 THEN <<v2, v1>> ELSE <<v1, v2>>

RECURSIVE CliqueEdges(_, _, _, _)
\* for e1, e2 in self.edges: mark matrix[v1 - 1][v2 - 1]
CliqueEdges(matrix, nodes, es, k) ==
    IF k > Len(es) THEN [ok |-> TRUE, matrix |-> matrix]
    ELSE IF ~EdgeOK(nodes, es[k]) THEN [ok |-> FALSE, matrix |-> matrix]
    ELSE LET cell == CliqueCell(PyIndex(nodes, es[k][1] - 1), PyIndex(nodes, es[k][2] - 1))
         IN  CliqueEdges([matrix EXCEPT ![cell[1] - 1][cell[2] - 1] = 1], nodes, es, k + 1)

\* faulty variant: the second index is shifted twice
NonEdgeClauseOffByOne(index1, index2) == <<-(index1 + 1), -(index2 + 2)>>

\* [-(index1 + 1), -(index2 + 1)]
NonEdgeClause(index1, index2) == <<-(index1 + 1), -(index2 + 1)>>

RECURSIVE CliqueNonEdges(_, _, _, _, _)
\* for index1 in range(n): for index2 in range(index1 + 1, n)
CliqueNonEdges(f, matrix, n, index1, index2) ==
    IF index1 >= n THEN f
    ELSE IF index2 >= n THEN CliqueNonEdges(f, matrix, n, index1 + 1, index1 + 2)
    ELSE IF matrix[index1][index2] # 1
         THEN CliqueNonEdges(AddClause(f, NonEdgeClause(index1, index2), TOP_WEIGHT),
                             matrix, n, index1, index2 + 1)
         ELSE CliqueNonEdges(f, matrix, n, index1, index2 + 1)

\* the local n of max_clique is what the loop 'for n in nodes' left: the last
\* element of nodes, and unbound when nodes is empty
CliqueNBound(nodes) == nodes # <<>>

CliqueN(nodes) == nodes[Len(nodes)]

\* max_clique up to the call of the solver
MaxCliqueBuild(nn, es) ==
    LET f1 == NewVars(EmptyFormula, nn)
        nodes == NodeVars(EmptyFormula, nn)
        f2 == SoftPerNode(f1, nodes, 1, 1)
    IN  IF ~CliqueNBound(nodes) THEN Raised
        ELSE LET n == CliqueN(nodes)
                 marked == CliqueEdges(EmptyMatrix(n), nodes, es, 1)
             IN  IF ~marked.ok THEN Raised
                 ELSE Built(CliqueNonEdges(f2, marked.matrix, n, 0, 1))

\* faulty variant: the clause of the negated endpoints is missing
CutSoftFirstOnly(f, v1, v2) == AddClause(f, <<v1, v2>>, 1)

\* faulty variant: the clause of the negated endpoints weighs 2
CutSoftWeight2(f, v1, v2) == AddClause(AddClause(f, <<v1, v2>>, 1), <<-v1, -v2>>, 2)

\* the two soft clauses of an edge between the variables v1 and v2
CutSoft(f, v1, v2) == AddClause(AddClause(f, <<v1, v2>>, 1), <<-v1, -v2>>, 1)

RECURSIVE CutEdges(_, _, _, _)
\* for e1, e2 in self.edges
CutEdges(f, nodes, es, k) ==
    IF k > Len(es) THEN Built(f)
    ELSE IF ~EdgeOK(nodes, es[k]) THEN Raised
    ELSE CutEdges(CutSoft(f, PyIndex(nodes, es[k][1] - 1), PyIndex(nodes, es[k][2] - 1)),
                  nodes, es, k + 1)

\* max_cut up to the call of the solver
MaxCutBuild(nn, es) ==
    CutEdges(NewVars(EmptyFormula, nn), NodeVars(EmptyFormula, nn), es, 1)

RECURSIVE Selected(_)
\* [n for n in model if n > 0]
Selected(model) ==
    IF model = <<>> THEN <<>>
    ELSE (IF model[1] > 0 THEN <<model[1]>> ELSE <<>>) \o Selected(Tail(model))

\* the tokens an edge line may carry as node ids
Endpoints == (-1)..(MaxNodes + 1)

\* read_stream: frozenset([int(l[1]), int(l[2])]) with node ids drawn from D
EdgeSets(D) == {{a, b} : a \in D, b \in D}

\* read_stream: tuple(x) of each frozenset, iterated in any order
EdgeTuples(D) == UNION {Orders(s) : s \in EdgeSets(D)}

\* read_stream: self.edges, the set of frozensets iterated in any order
EdgeLists(T) ==
    {es \in SeqsUpTo(T, MaxEdges) :
        \A i \in 1..Len(es) : \A j \in 1..Len(es) : i # j => Range(es[i]) # Range(es[j])}

\* the edge tuples of a stream whose edges join distinct nodes of 1..nn
GraphTuples(nn) == {t \in EdgeTuples(1..nn) : Len(t) = 2}

\* Graph(file_path): the graph a stream may define
InitGraph ==
    /\ pc = "idle"
    /\ formula = EmptyFormula
    /\ solution = NoSolution
    /\ n_nodes \in 0..MaxNodes
    /\ edges \in EdgeLists(EdgeTuples(Endpoints))
    /\ op = "none"
    /\ failed = FALSE
    /\ result = <<>>
    /\ flag = FALSE
    /\ auctioneers = <<>>
    /\ auctions = <<>>
    /\ goods = {}
    /\ benefit = 0
    /\ printed = <<>>
    /\ valid = TRUE

\* Graph(file_path) on a stream that defines a graph: edges join distinct nodes of 1..n
InitValidGraph ==
    /\ pc = "idle"
    /\ formula = EmptyFormula
    /\ solution = NoSolution
    /\ n_nodes \in 0..MaxNodes
    /\ edges \in EdgeLists(GraphTuples(n_nodes))
    /\ op = "none"
    /\ failed = FALSE
    /\ result = <<>>
    /\ flag = FALSE
    /\ auctioneers = <<>>
    /\ auctions = <<>>
    /\ goods = {}
    /\ benefit = 0
    /\ printed = <<>>
    /\ valid = TRUE

\* a reduction is called: it raises, or hands its formula to the solver
Call(name, built) ==
    /\ pc = "idle"
    /\ op' = name
    /\ result' = <<>>
    /\ solution' = NoSolution
    /\ formula' = built.f
    /\ failed' = ~built.ok
    /\ pc' = IF built.ok THEN "graph_solve" ELSE "idle"
    /\ UNCHANGED <<n_nodes, edges>>
    /\ UNCHANGED auctionVars

MinVertexCover == Call("mvc", MinVertexCoverBuild(n_nodes, edges))

MaxClique == Call("clique", MaxCliqueBuild(n_nodes, edges))

MaxCut == Call("cut", MaxCutBuild(n_nodes, edges))

\* solver.solve(formula) returns an optimal model and the reduction its node list
GraphSolved ==
    /\ pc = "graph_solve"
    /\ \E m \in Optimal(formula) :
          /\ solution' = <<Cost(formula, m), m>>
          /\ result' = Selected(m)
    /\ pc' = "idle"
    /\ UNCHANGED <<formula, n_nodes, edges, op, failed>>
    /\ UNCHANGED auctionVars

NextGraph ==
    \/ MinVertexCover
    \/ MaxClique
    \/ MaxCut
    \/ GraphSolved

Init == InitAuction \/ InitGraph

Next == NextAuction \/ NextGraph

Spec == Init /\ [][Next]_vars

SpecGraph == InitValidGraph /\ [][NextGraph]_vars

SpecAuction == InitAuction /\ [][NextAuction]_vars

----------------------------------------------------------------------------
(* Vocabulary of the properties *)

\* the formula has been handed to the solver
Handed == pc \in {"solve", "solved", "printed", "infeasible", "graph_solve"}

AuctionHanded == pc \in {"solve", "solved", "printed", "infeasible"}

\* the goods a bid row lists: the tokens between the agent and the price
ListedGoods(row) == {row[k] : k \in 2..(Len(row) - 1)}

RowPrice(row) == IntValue(row[Len(row)])

RECURSIVE SumPrices(_)
SumPrices(rows) == IF rows = <<>> THEN 0 ELSE RowPrice(rows[1]) + SumPrices(Tail(rows))

\* the bids a model makes win
Winners(m) == {i \in 1..Len(auctions) : i <= Len(m) /\ m[i] > 0}

BidsOf(agent) == {i \in 1..Len(auctions) : auctions[i][1] = agent}

\* the pairs of bids that list a common good
ConflictClauses ==
    {c \in {<<-i, -j>> : i \in 1..Len(auctions), j \in 1..Len(auctions)} :
        /\ -c[1] < -c[2]
        /\ ListedGoods(auctions[-c[1]]) \cap ListedGoods(auctions[-c[2]]) # {}}

\* the hard clause check_all_auctioneers_win added for the k-th auctioneer
AuctioneerClause(k) == formula.hard[Len(formula.hard) - Len(auctioneers) + k]

\* a graph in the sense of the data model: edges join distinct nodes of 1..n
ValidGraph ==
    \A k \in 1..Len(edges) :
        /\ Len(edges[k]) = 2
        /\ edges[k][1] \in 1..n_nodes
        /\ edges[k][2] \in 1..n_nodes
        /\ edges[k][1] # edges[k][2]

Adjacent(a, b) == \E k \in 1..Len(edges) : Range(edges[k]) = {a, b}

IsCover(S) == \A k \in 1..Len(edges) : Range(edges[k]) \cap S # {}

IsClique(S) == \A a \in S : \A b \in S : a # b => Adjacent(a, b)

CutEdgesOf(S) == {k \in 1..Len(edges) : Cardinality(Range(edges[k]) \cap S) = 1}

CutSize(S) == Cardinality(CutEdgesOf(S))

Returned(name) == pc = "idle" /\ op = name /\ ~failed

TrueNodes(m) == {i \in 1..Len(m) : m[i] > 0}

LiteralsInRange(f) ==
    /\ \A c \in 1..Len(f.hard) : \A k \in 1..Len(f.hard[c]) :
          (IF f.hard[c][k] < 0 THEN -f.hard[c][k] ELSE f.hard[c][k]) \in 1..f.num_vars
    /\ \A c \in 1..Len(f.soft) : \A k \in 1..Len(f.soft[c][1]) :
          (IF f.soft[c][1][k] < 0 THEN -f.soft[c][1][k] ELSE f.soft[c][1][k]) \in 1..f.num_vars

----------------------------------------------------------------------------
(* Properties *)

\* C1: in every assignment that satisfies the hard clauses of the auction
\* formula, each good is listed by at most one winning bid.
C1_OneWinnerPerGood ==
    AuctionHanded =>
        \A m \in Feasible(formula) : \A g \in Goods :
            Cardinality({i \in Winners(m) : g \in ListedGoods(auctions[i])}) <= 1

\* C1 witness: two bids that share both goods, one of them printed as winner
C1_Witness ==
    /\ pc = "printed"
    /\ Len(auctions) = 2
    /\ ListedGoods(auctions[1]) = Goods
    /\ ListedGoods(auctions[2]) = Goods
    /\ Len(printed) = 1

\* C2: the printed benefit is the sum of the prices of the bids printed as winners.
C2_BenefitIsSumOfWinners ==
    pc = "printed" => benefit = SumPrices(printed)

\* C2 witness: two winners, one priced "02", and a benefit of 4
C2_Witness ==
    /\ pc = "printed"
    /\ Len(printed) = 2
    /\ printed[1][Len(printed[1])] = "02"
    /\ benefit = 4

\* C3: without the flag every auctioneer has a winning bid in every assignment
\* that satisfies the hard clauses; with the flag the hard clauses are the
\* incompatibility clauses only.
C3_AuctioneersWin ==
    AuctionHanded =>
        /\ ~flag =>
              \A m \in Feasible(formula) : \A k \in 1..Len(auctioneers) :
                  BidsOf(auctioneers[k]) \cap Winners(m) # {}
        /\ flag =>
              /\ Range(formula.hard) = ConflictClauses
              /\ Len(formula.hard) = Cardinality(ConflictClauses)

\* C3 witness: the only winner is a bid of auctioneer A although a bid of B that
\* conflicts with it pays more
C3_Witness ==
    /\ pc = "printed"
    /\ ~flag
    /\ auctioneers = <<"A">>
    /\ Len(printed) = 1
    /\ printed[1][1] = "A"
    /\ \E i \in BidsOf("B") :
          /\ RowPrice(auctions[i]) > RowPrice(printed[1])
          /\ ListedGoods(auctions[i]) \cap ListedGoods(printed[1]) # {}

\* C4: on a graph, the list min_vertex_cover returns is a vertex cover, no vertex
\* cover is smaller, and without edges it is empty.
C4_MinVertexCover ==
    (ValidGraph /\ pc = "idle" /\ op = "mvc") =>
        /\ ~failed
        /\ IsCover(Range(result))
        /\ \A S \in SUBSET (1..n_nodes) : IsCover(S) => Len(result) <= Cardinality(S)
        /\ edges = <<>> => result = <<>>

\* C4 witness: a triangle covered by two nodes
C4_Witness ==
    /\ ValidGraph
    /\ Returned("mvc")
    /\ Len(edges) = 3
    /\ Len(result) = 2

\* C5: on a graph, the list max_clique returns is a clique and no clique is
\* larger, whichever way round the edges are stored.
C5_MaxClique ==
    (ValidGraph /\ Returned("clique")) =>
        /\ IsClique(Range(result))
        /\ Len(result) = Cardinality(Range(result))
        /\ \A S \in SUBSET (1..n_nodes) : IsClique(S) => Cardinality(S) <= Len(result)

\* C5 witness: three nodes, one edge stored larger node first, returned as the clique
C5_Witness ==
    /\ ValidGraph
    /\ Returned("clique")
    /\ n_nodes = 3
    /\ Len(edges) = 1
    /\ edges[1][1] > edges[1][2]
    /\ Range(result) = Range(edges[1])

\* C6: on a graph, the nodes max_cut returns and the other nodes cut as many
\* edges as any 2-partition does.
C6_MaxCut ==
    (ValidGraph /\ Returned("cut")) =>
        \A S \in SUBSET (1..n_nodes) : CutSize(S) <= CutSize(Range(result))

\* C6 witness: a triangle, of which two edges are cut
C6_Witness ==
    /\ ValidGraph
    /\ Returned("cut")
    /\ Len(edges) = 3
    /\ n_nodes = 3
    /\ CutSize(Range(result)) = 2

\* C7: every literal of a formula handed to the solver names a variable in
\* 1..variables.
C7_LiteralsInRange == Handed => LiteralsInRange(formula)

\* C7 witness: a clique formula with non-edge clauses, built from a graph with an
\* edge whose endpoint is 0 or negative
C7_Witness ==
    /\ pc = "graph_solve"
    /\ op = "clique"
    /\ formula.hard # <<>>
    /\ \E k \in 1..Len(edges) : edges[k][1] <= 0

\* C8 as stated: under every assignment the cost of the max-cut formula is the
\* number of cut edges plus twice the number of uncut edges.
C8_Original ==
    (ValidGraph /\ pc = "graph_solve" /\ op = "cut") =>
        \A m \in Assignments(formula.num_vars) :
            Cost(formula, m) = CutSize(TrueNodes(m)) + 2 * (Len(edges) - CutSize(TrueNodes(m)))

\* C8 amended: under every assignment a cut edge costs 0 and an uncut edge 1,
\* edge by edge, so the cost of the max-cut formula is the number of uncut edges.
C8_CostIsUncutEdges ==
    (ValidGraph /\ pc = "graph_solve" /\ op = "cut") =>
        /\ Len(formula.soft) = 2 * Len(edges)
        /\ \A m \in Assignments(formula.num_vars) :
              /\ \A k \in 1..Len(edges) :
                    FalsifiedWeight(SubSeq(formula.soft, 2 * k - 1, 2 * k), m)
                        = IF k \in CutEdgesOf(TrueNodes(m)) THEN 0 ELSE 1
              /\ Cost(formula, m) = Len(edges) - CutSize(TrueNodes(m))

\* C8 witness: a max-cut formula of three edges
C8_Witness ==
    /\ ValidGraph
    /\ pc = "graph_solve"
    /\ op = "cut"
    /\ Len(edges) = 3

\* C9: on every graph max_clique does not fail, and its hard clauses are the
\* clauses [-a, -b] of exactly the pairs a < b of 1..n_nodes that are not edges.
C9_CliqueUsesNodeCount ==
    (ValidGraph /\ op = "clique") =>
        /\ ~failed
        /\ Range(formula.hard)
             = {c \in {<<-a, -b>> : a \in 1..n_nodes, b \in 1..n_nodes} :
                   -c[1] < -c[2] /\ ~Adjacent(-c[1], -c[2])}

\* C10: the hard clause of an auctioneer consists of exactly the variables of
\* the bids of that auctioneer.
C10_AuctioneerClause ==
    (AuctionHanded /\ ~flag) =>
        \A k \in 1..Len(auctioneers) :
            Range(AuctioneerClause(k)) = BidsOf(auctioneers[k])

====
